---- MODULE Spec2Model ----
(***************************************************************************)
(* Model of src/admin.js: the in-memory book list (bookData), the sort     *)
(* button (data-sort-order attribute and text), the category filter, the   *)
(* rendered book grid, and the four event handlers.                        *)
(*                                                                         *)
(* JavaScript strings are sequences of UTF-16 code units, so that trim,    *)
(* toUpperCase, the relational operators and the innerHTML/textContent     *)
(* round trip are computed rather than assumed.                            *)
(***************************************************************************)
EXTENDS Integers, Sequences, FiniteSets, TLC

VARIABLES
    bookData,       \* admin.js:2    the central array of book objects
    sortOrder,      \* sortButton's data-sort-order attribute ("unset" = absent)
    sortText,       \* sortButton.textContent
    filter,         \* filterCategory.value
    bookGrid,       \* the cards currently in #bookGrid, in document order
    lastCmd,        \* the handler that ran last ("init" before any event)
    indexToDelete,  \* handleDelete's local of the same name (-1 outside it)
    bookTitle,      \* handleDelete's local of the same name
    bookAuthor,     \* handleDelete's local of the same name
    addLog          \* history: the books added so far, in order, kept
                    \* while no delete has run (NoLog afterwards)

vars ==
    <<bookData, sortOrder, sortText, filter, bookGrid, lastCmd,
      indexToDelete, bookTitle, bookAuthor, addLog>>

---------------------------------------------------------------------------
(* Bounds and inputs *)

\* The largest number of books the store may hold in the model.
MaxBooks ==
    3

\* "Dune"
Dune ==
    <<68, 117, 110, 101>>
\* " dune "
DunePadded ==
    <<32, 100, 117, 110, 101, 32>>
\* "Clean Code"
CleanCode ==
    <<67, 108, 101, 97, 110, 32, 67, 111, 100, 101>>
\* "Calvin and Hobbes"
CalvinAndHobbes ==
    <<67, 97, 108, 118, 105, 110, 32, 97, 110, 100, 32, 72, 111, 98, 98, 101, 115>>
\* "Frank Herbert"
FrankHerbert ==
    <<70, 114, 97, 110, 107, 32, 72, 101, 114, 98, 101, 114, 116>>
\* "Robert Martin"
RobertMartin ==
    <<82, 111, 98, 101, 114, 116, 32, 77, 97, 114, 116, 105, 110>>
\* "Bill Watterson"
BillWatterson ==
    <<66, 105, 108, 108, 32, 87, 97, 116, 116, 101, 114, 115, 111, 110>>
\* " "
Blank ==
    <<32>>
\* "&amp;"
AmpEntity ==
    <<38, 97, 109, 112, 59>>
\* "&"
Amp ==
    <<38>>
\* "Author: "
AuthorPrefix ==
    <<65, 117, 116, 104, 111, 114, 58, 32>>

\* The options of the form's category select.
Categories ==
    {"Technical", "Comedy"}

\* The options of the filter select: the sentinel plus each category.
FilterOptions ==
    {"All"} \cup Categories

\* The raw form contents a user may submit: the three books of the spec's
\* scenario, a case variant with surrounding blanks, a second category for
\* an existing title+author, a blank-only title, a title that is an HTML
\* character reference, and an empty title.
Submissions ==
    { [title |-> Dune,            author |-> FrankHerbert,  category |-> "Technical"],
      [title |-> CleanCode,       author |-> RobertMartin,  category |-> "Technical"],
      [title |-> CalvinAndHobbes, author |-> BillWatterson, category |-> "Comedy"],
      [title |-> DunePadded,      author |-> FrankHerbert,  category |-> "Comedy"],
      [title |-> Dune,            author |-> FrankHerbert,  category |-> "Comedy"],
      [title |-> Blank,           author |-> FrankHerbert,  category |-> "Technical"],
      [title |-> AmpEntity,       author |-> BillWatterson, category |-> "Comedy"],
      [title |-> <<>>,            author |-> RobertMartin,  category |-> "Comedy"] }

---------------------------------------------------------------------------
(* String primitives *)

\* White space as String.prototype.trim understands it (code units < 256).
IsWhiteSpace(c) ==
    c \in {9, 10, 11, 12, 13, 32, 160}

RECURSIVE TrimStart(_)
TrimStart(s) ==
    IF s = <<>> THEN <<>>
    ELSE IF IsWhiteSpace(Head(s)) THEN TrimStart(Tail(s))
    ELSE s

RECURSIVE TrimEnd(_)
TrimEnd(s) ==
    IF s = <<>> THEN <<>>
    ELSE IF IsWhiteSpace(s[Len(s)]) THEN TrimEnd(SubSeq(s, 1, Len(s) - 1))
    ELSE s

\* String.prototype.trim
Trim(s) ==
    TrimEnd(TrimStart(s))

\* String.prototype.toUpperCase on one code unit (ASCII letters).
UpperUnit(c) ==
    IF c >= 97 /\ c <= 122 THEN c - 32 ELSE c

\* String.prototype.toUpperCase
ToUpperCase(s) ==
    [i \in 1..Len(s) |-> UpperUnit(s[i])]

\* The < operator on two strings: code unit by code unit, a proper prefix
\* being smaller.
RECURSIVE StrLess(_, _)
StrLess(a, b) ==
    IF b = <<>> THEN FALSE
    ELSE IF a = <<>> THEN TRUE
    ELSE IF Head(a) < Head(b) THEN TRUE
    ELSE IF Head(a) > Head(b) THEN FALSE
    ELSE StrLess(Tail(a), Tail(b))

\* TRUE iff p is a prefix of s.
StartsWith(s, p) ==
    Len(p) <= Len(s) /\ SubSeq(s, 1, Len(p)) = p

\* String.prototype.replace(pattern, replacement) with a string pattern:
\* only the first occurrence is replaced.
RECURSIVE Replace(_, _, _)
Replace(s, pattern, replacement) ==
    IF StartsWith(s, pattern)
    THEN replacement \o SubSeq(s, Len(pattern) + 1, Len(s))
    ELSE IF s = <<>> THEN <<>>
    ELSE <<Head(s)>> \o Replace(Tail(s), pattern, replacement)

\* The text a browser's HTML parser produces for character data placed in
\* element content through innerHTML: the character reference "&amp;" is
\* decoded to "&", every other code unit of the modelled inputs (which hold
\* no "<" and no other reference) is kept.
RECURSIVE HtmlText(_)
HtmlText(s) ==
    IF s = <<>> THEN <<>>
    ELSE IF StartsWith(s, AmpEntity)
    THEN Amp \o HtmlText(SubSeq(s, Len(AmpEntity) + 1, Len(s)))
    ELSE <<Head(s)>> \o HtmlText(Tail(s))

---------------------------------------------------------------------------
(* The program *)

DEFAULT_IMAGE_URL ==
    "https://m.media-amazon.com/images/I/71ZB18P3inl._SY522_.jpg"

\* The form's required-field constraint: a submit event is dispatched only
\* when no required field has an empty value.
RequiredOk(form) ==
    form.title # <<>> /\ form.author # <<>>

\* handleAddBook's newBook object literal.
NewBook(form) ==
    [title    |-> Trim(form.title),
     author   |-> Trim(form.author),
     category |-> form.category,
     imageUrl |-> DEFAULT_IMAGE_URL]

\* Push as unshift would do it: the new element goes to the front.
PushFront(arr, x) ==
    <<x>> \o arr

\* Array.prototype.push
Push(arr, x) ==
    Append(arr, x)

\* FilterCategory with the test negated: keeps the other categories.
FilterCategoryNegated(books, selectedCategory) ==
    SelectSeq(books, LAMBDA book : book.category # selectedCategory)

\* Array.prototype.filter with book => book.category === selectedCategory
RECURSIVE FilterCategory(_, _)
FilterCategory(books, selectedCategory) ==
    IF books = <<>> THEN <<>>
    ELSE IF Head(books).category = selectedCategory
    THEN <<Head(books)>> \o FilterCategory(Tail(books), selectedCategory)
    ELSE FilterCategory(Tail(books), selectedCategory)

\* Compare on the titles as stored, without toUpperCase.
CompareCaseSensitive(a, b, order) ==
    IF StrLess(a.title, b.title) THEN (IF order = "asc" THEN -1 ELSE 1)
    ELSE IF StrLess(b.title, a.title) THEN (IF order = "asc" THEN 1 ELSE -1)
    ELSE 0

\* Compare without the direction: always the ascending result.
CompareAscendingOnly(a, b, order) ==
    LET titleA == ToUpperCase(a.title)
        titleB == ToUpperCase(b.title)
    IN  IF StrLess(titleA, titleB) THEN -1
        ELSE IF StrLess(titleB, titleA) THEN 1
        ELSE 0

\* The comparator handed to books.sort.
Compare(a, b, order) ==
    LET titleA == ToUpperCase(a.title)
        titleB == ToUpperCase(b.title)
    IN  IF StrLess(titleA, titleB) THEN (IF order = "asc" THEN -1 ELSE 1)
        ELSE IF StrLess(titleB, titleA) THEN (IF order = "asc" THEN 1 ELSE -1)
        ELSE 0

\* One step of a stable sort: x, which came after every element of sorted
\* in the input, goes before the first element it must precede.
RECURSIVE InsertSorted(_, _, _)
InsertSorted(sorted, x, order) ==
    IF sorted = <<>> THEN <<x>>
    ELSE IF Compare(x, Head(sorted), order) < 0 THEN <<x>> \o sorted
    ELSE <<Head(sorted)>> \o InsertSorted(Tail(sorted), x, order)

\* Array.prototype.sort with the comparator: stable since ES2019.
RECURSIVE SortBooks(_, _)
SortBooks(books, order) ==
    IF books = <<>> THEN <<>>
    ELSE InsertSorted(SortBooks(SubSeq(books, 1, Len(books) - 1), order),
                      books[Len(books)], order)

\* GetProcessedBooks with the sort step left out.
GetProcessedBooksUnsorted(data, selectedCategory, order) ==
    IF selectedCategory # "All"
    THEN FilterCategory(data, selectedCategory)
    ELSE data

\* GetProcessedBooks without the test of the attribute: always sorts.
GetProcessedBooksAlwaysSorted(data, selectedCategory, order) ==
    SortBooks(IF selectedCategory # "All"
              THEN FilterCategory(data, selectedCategory)
              ELSE data, order)

\* getProcessedBooks, with the state it reads as parameters.
GetProcessedBooks(data, selectedCategory, order) ==
    LET filtered == IF selectedCategory # "All"
                    THEN FilterCategory(data, selectedCategory)
                    ELSE data
    IN  IF order # "unset" THEN SortBooks(filtered, order) ELSE filtered

\* StoreAfterProcessing with books an alias of bookData instead of a copy:
\* the in-place sort then reorders the store whenever filter() has not
\* made a new array.
StoreAliased(data, selectedCategory, order) ==
    IF selectedCategory = "All" /\ order # "unset"
    THEN SortBooks(data, order)
    ELSE data

\* What a call of getProcessedBooks leaves in bookData: books is a spread
\* copy, so neither filter() nor the in-place sort() reaches the store.
StoreAfterProcessing(data, selectedCategory, order) ==
    data

\* RenderBooks without the clearing of bookGrid.innerHTML: the new cards
\* come after the cards of the render before.
RenderBooksNoClear(books) ==
    bookGrid \o
    [i \in 1..Len(books) |->
        [dataIndex |-> i - 1,
         img       |-> books[i].imageUrl,
         h3        |-> HtmlText(books[i].title),
         pAuthor   |-> AuthorPrefix \o HtmlText(books[i].author),
         pCategory |-> books[i].category]]

\* renderBooks: one card per book; the card keeps the position in the
\* rendered array and the text the parser made of the interpolated fields.
RenderBooks(books) ==
    [i \in 1..Len(books) |->
        [dataIndex |-> i - 1,
         img       |-> books[i].imageUrl,
         h3        |-> HtmlText(books[i].title),
         pAuthor   |-> AuthorPrefix \o HtmlText(books[i].author),
         pCategory |-> books[i].category]]

\* updateDisplay: the grid that results for the given state.
UpdateDisplay(data, selectedCategory, order) ==
    RenderBooks(GetProcessedBooks(data, selectedCategory, order))

\* FindIndex as findLastIndex: the 0-based index of the last match.
FindLastIndex(data, title, author) ==
    LET hits == {i \in 1..Len(data) :
                    data[i].title = title /\ data[i].author = author}
    IN  IF hits = {} THEN -1
        ELSE (CHOOSE i \in hits : \A j \in hits : i >= j) - 1

\* FindIndex whose "none" result acts as splice(-1, 1) does: the last index.
FindIndexOrLast(data, title, author) ==
    LET hits == {i \in 1..Len(data) :
                    data[i].title = title /\ data[i].author = author}
    IN  IF hits = {} THEN Len(data) - 1
        ELSE (CHOOSE i \in hits : \A j \in hits : i <= j) - 1

\* Array.prototype.findIndex with the title/author predicate: the 0-based
\* index of the first match, -1 when there is none.
FindIndex(data, title, author) ==
    LET hits == {i \in 1..Len(data) :
                    data[i].title = title /\ data[i].author = author}
    IN  IF hits = {} THEN -1
        ELSE (CHOOSE i \in hits : \A j \in hits : i <= j) - 1

\* Array.prototype.splice(mainIndex, 1) with a 0-based index.
Splice(data, mainIndex) ==
    SubSeq(data, 1, mainIndex) \o SubSeq(data, mainIndex + 2, Len(data))

\* NewOrder with the attribute removed again on a click in "desc".
NewOrderCycle(currentOrder) ==
    IF currentOrder = "asc" THEN "desc"
    ELSE IF currentOrder = "desc" THEN "unset"
    ELSE "asc"

\* handleSort's choice of the new data-sort-order.
NewOrder(currentOrder) ==
    IF currentOrder = "asc" THEN "desc" ELSE "asc"

\* handleSort's choice of the new button text.
NewText(currentOrder) ==
    IF currentOrder = "asc" THEN "Sort by Title Z → A" ELSE "Sort by Title A → Z"

\* The value of addLog once a delete has run.
NoLog ==
    "deleted"

Init ==
    /\ bookData = <<>>
    /\ sortOrder = "unset"
    /\ sortText = "Sort by Title A → Z"
    /\ filter = "All"
    /\ bookGrid = <<>>
    /\ lastCmd = "init"
    /\ indexToDelete = -1
    /\ bookTitle = <<>>
    /\ bookAuthor = <<>>
    /\ addLog = <<>>

HandleAddBook ==
    \E form \in Submissions :
        /\ RequiredOk(form)
        /\ Len(bookData) < MaxBooks
        /\ LET pushed == Push(bookData, NewBook(form))
           IN  /\ bookData' = StoreAfterProcessing(pushed, filter, sortOrder)
               /\ bookGrid' = UpdateDisplay(pushed, filter, sortOrder)
        /\ lastCmd' = "add"
        /\ indexToDelete' = -1
        /\ bookTitle' = <<>>
        /\ bookAuthor' = <<>>
        /\ addLog' = IF addLog = NoLog THEN NoLog ELSE Append(addLog, NewBook(form))
        /\ UNCHANGED <<sortOrder, sortText, filter>>

HandleSort ==
    /\ sortOrder' = NewOrder(sortOrder)
    /\ sortText' = NewText(sortOrder)
    /\ bookData' = StoreAfterProcessing(bookData, filter, sortOrder')
    /\ bookGrid' = UpdateDisplay(bookData, filter, sortOrder')
    /\ lastCmd' = "sort"
    /\ indexToDelete' = -1
    /\ bookTitle' = <<>>
    /\ bookAuthor' = <<>>
    /\ UNCHANGED <<filter, addLog>>

\* HandleDelete that also removes the data-sort-order attribute.
HandleDeleteResetsSort ==
    \E card \in 1..Len(bookGrid) :
        /\ indexToDelete' = bookGrid[card].dataIndex
        /\ bookTitle' = bookGrid[card].h3
        /\ bookAuthor' = Replace(bookGrid[card].pAuthor, AuthorPrefix, <<>>)
        /\ sortOrder' = "unset"
        /\ LET mainIndex == FindIndex(bookData, bookTitle', bookAuthor')
           IN  IF mainIndex # -1
               THEN LET spliced == Splice(bookData, mainIndex)
                    IN  /\ bookData' = StoreAfterProcessing(spliced, filter, sortOrder')
                        /\ bookGrid' = UpdateDisplay(spliced, filter, sortOrder')
               ELSE UNCHANGED <<bookData, bookGrid>>
        /\ lastCmd' = "delete"
        /\ addLog' = NoLog
        /\ UNCHANGED <<sortText, filter>>

HandleDelete ==
    \E card \in 1..Len(bookGrid) :
        /\ indexToDelete' = bookGrid[card].dataIndex
        /\ bookTitle' = bookGrid[card].h3
        /\ bookAuthor' = Replace(bookGrid[card].pAuthor, AuthorPrefix, <<>>)
        /\ LET mainIndex == FindIndex(bookData, bookTitle', bookAuthor')
           IN  IF mainIndex # -1
               THEN LET spliced == Splice(bookData, mainIndex)
                    IN  /\ bookData' = StoreAfterProcessing(spliced, filter, sortOrder)
                        /\ bookGrid' = UpdateDisplay(spliced, filter, sortOrder)
               ELSE UNCHANGED <<bookData, bookGrid>>
        /\ lastCmd' = "delete"
        /\ addLog' = NoLog
        /\ UNCHANGED <<sortOrder, sortText, filter>>

ChangeFilter ==
    \E selected \in FilterOptions \ {filter} :
        /\ filter' = selected
        /\ bookData' = StoreAfterProcessing(bookData, filter', sortOrder)
        /\ bookGrid' = UpdateDisplay(bookData, filter', sortOrder)
        /\ lastCmd' = "filter"
        /\ indexToDelete' = -1
        /\ bookTitle' = <<>>
        /\ bookAuthor' = <<>>
        /\ UNCHANGED <<sortOrder, sortText, addLog>>

Next ==
    \/ HandleAddBook
    \/ HandleSort
    \/ HandleDelete
    \/ ChangeFilter

Spec ==
    Init /\ [][Next]_vars

TypeOK ==
    /\ Len(bookData) <= MaxBooks
    /\ sortOrder \in {"unset", "asc", "desc"}
    /\ filter \in FilterOptions
    /\ lastCmd \in {"init", "add", "sort", "delete", "filter"}
---------------------------------------------------------------------------
(* Helpers of the properties *)

\* TRUE iff record i of data has the given title and author.
Matches(data, i, title, author) ==
    data[i].title = title /\ data[i].author = author

\* TRUE iff no two records of data share title and author.
DistinctPairs(data) ==
    \A i, j \in 1..Len(data) :
        Matches(data, i, data[j].title, data[j].author) => i = j

\* data without its i-th (1-based) record.
Without(data, i) ==
    [k \in 1..(Len(data) - 1) |-> IF k < i THEN data[k] ELSE data[k + 1]]

\* The projection of the current state.
Projection ==
    GetProcessedBooks(bookData, filter, sortOrder)

---------------------------------------------------------------------------
(* Properties *)

\* C1: a delete whose recovered (title, author) pair matches at least one
\* record removes exactly one record, the lowest-index one carrying that
\* pair; every other record keeps its place relative to the others.
C1_DeleteRemovesFirstMatch ==
    [][ (/\ lastCmd' = "delete"
         /\ \E i \in 1..Len(bookData) : Matches(bookData, i, bookTitle', bookAuthor'))
        => \E k \in 1..Len(bookData) :
              /\ Matches(bookData, k, bookTitle', bookAuthor')
              /\ \A j \in 1..(k - 1) : ~Matches(bookData, j, bookTitle', bookAuthor')
              /\ Len(bookData') = Len(bookData) - 1
              /\ \A j \in 1..(k - 1) : bookData'[j] = bookData[j]
              /\ \A j \in (k + 1)..Len(bookData) : bookData'[j - 1] = bookData[j]
      ]_vars

\* C1 witness: a delete has run and a record with the deleted title and
\* author but another category is still in the store, behind a record that
\* was in front of the removed one.
C1_Witness ==
    /\ lastCmd = "delete"
    /\ Len(bookData) = 2
    /\ ~Matches(bookData, 1, bookTitle, bookAuthor)
    /\ Matches(bookData, 2, bookTitle, bookAuthor)
    /\ bookData[2].category = "Comedy"
    /\ bookTitle = Dune

\* C2: with all (title, author) pairs of the store distinct, a click on the
\* delete button of card i removes from the store exactly the record that
\* card shows, the i-th record of the projection.
C2_DeleteRemovesShownRecord ==
    [][ (lastCmd' = "delete" /\ DistinctPairs(bookData))
        => \E k \in 1..Len(bookData) :
              /\ bookData[k] = Projection[indexToDelete' + 1]
              /\ bookData' = Without(bookData, k)
      ]_vars

\* C3: every record of the store has a title and an author that are not
\* empty after trimming.
C3_TitleAuthorNonEmpty ==
    \A i \in 1..Len(bookData) :
        Trim(bookData[i].title) # <<>> /\ Trim(bookData[i].author) # <<>>

\* C4: after a sort toggle the button text names the next click's action:
\* "Z → A" when the order is now ascending, "A → Z" when it is descending.
C4_LabelNamesNextAction ==
    lastCmd = "sort" =>
        sortText = (IF sortOrder = "asc" THEN "Sort by Title Z → A"
                    ELSE "Sort by Title A → Z")

\* C5: the sort state starts unset; a sort toggle moves unset and
\* descending to ascending and ascending to descending; no other command
\* changes it; once it is not unset it never is unset again.
C5_SortStateMachine ==
    /\ sortOrder = "unset"
    /\ [][ /\ lastCmd' = "sort" =>
                sortOrder' = (IF sortOrder = "asc" THEN "desc" ELSE "asc")
           /\ lastCmd' # "sort" => sortOrder' = sortOrder
           /\ sortOrder # "unset" => sortOrder' # "unset"
         ]_vars

\* C5 witness: the order is descending (two toggles at least) and commands
\* other than the toggle have run since.
C5_Witness ==
    /\ sortOrder = "desc"
    /\ lastCmd = "delete"
    /\ filter # "All"
    /\ bookData # <<>>

\* The three books of the spec's scenario, as handleAddBook stores them.
DuneBook ==
    [title |-> Dune, author |-> FrankHerbert, category |-> "Technical",
     imageUrl |-> DEFAULT_IMAGE_URL]

CleanCodeBook ==
    [title |-> CleanCode, author |-> RobertMartin, category |-> "Technical",
     imageUrl |-> DEFAULT_IMAGE_URL]

CalvinBook ==
    [title |-> CalvinAndHobbes, author |-> BillWatterson, category |-> "Comedy",
     imageUrl |-> DEFAULT_IMAGE_URL]

\* The state the scenario's three adds lead to, before any toggle.
ScenarioAdded ==
    /\ bookData = <<DuneBook, CleanCodeBook, CalvinBook>>
    /\ filter = "All"

\* The scenario's first step: the toggle on the three books, sort unset,
\* shows Calvin and Hobbes, Clean Code, Dune.
ScenarioToggle ==
    (ScenarioAdded /\ sortOrder = "unset" /\ lastCmd' = "sort")
        => /\ Projection' = <<CalvinBook, CleanCodeBook, DuneBook>>
           /\ bookGrid' = RenderBooks(<<CalvinBook, CleanCodeBook, DuneBook>>)

\* TRUE of a step that is the scenario's delete of Clean Code/Robert Martin
\* in the state its toggle left.
ScenarioDelete ==
    /\ ScenarioAdded
    /\ sortOrder = "asc"
    /\ lastCmd' = "delete"
    /\ bookTitle' = CleanCode
    /\ bookAuthor' = RobertMartin

\* C6 as stated: after the scenario's toggle and delete the store has two
\* records and the unfiltered projection is Dune, Calvin and Hobbes.
C6_ScenarioInsertionOrder ==
    [][ /\ ScenarioToggle
        /\ ScenarioDelete =>
              /\ Len(bookData') = 2
              /\ Projection' = <<DuneBook, CalvinBook>>
      ]_vars

\* C6 amended: after the scenario's toggle and delete the store has the two
\* records Dune, Calvin and Hobbes and the unfiltered projection is still
\* ascending: Calvin and Hobbes, Dune.
C6_ScenarioStillAscending ==
    [][ /\ ScenarioToggle
        /\ ScenarioDelete =>
              /\ bookData' = <<DuneBook, CalvinBook>>
              /\ sortOrder' = "asc"
              /\ filter' = "All"
              /\ Projection' = <<CalvinBook, DuneBook>>
              /\ bookGrid' = RenderBooks(<<CalvinBook, DuneBook>>)
      ]_vars

\* C6 witness: the state the scenario ends in.
C6_Witness ==
    /\ bookData = <<DuneBook, CalvinBook>>
    /\ sortOrder = "asc"
    /\ filter = "All"
    /\ lastCmd = "delete"
    /\ bookTitle = CleanCode
    /\ bookAuthor = RobertMartin
    /\ indexToDelete = 1

\* C7: with the sort unset and a category selected, the projection is the
\* subsequence of the store made of the records of that category: it has
\* one position per such record, and the record at store index i stands at
\* the position that counts the category's records up to i.
C7_FilterIsSubsequence ==
    (sortOrder = "unset" /\ filter # "All") =>
        LET inCategory == {i \in 1..Len(bookData) : bookData[i].category = filter}
            rank(i)    == Cardinality({j \in inCategory : j <= i})
            projected  == Projection
        IN  /\ Len(projected) = Cardinality(inCategory)
            /\ \A i \in inCategory : projected[rank(i)] = bookData[i]

\* C7 witness: a category is selected, the sort is unset, and the store
\* holds a record of another category between two records of the selected
\* one.
C7_Witness ==
    /\ sortOrder = "unset"
    /\ filter = "Technical"
    /\ lastCmd = "filter"
    /\ Len(bookData) = 3
    /\ bookData[1].category = "Technical"
    /\ bookData[2].category = "Comedy"
    /\ bookData[3].category = "Technical"

\* C8: with filter "All" and the sort unset the projection is the store's
\* sequence itself.
C8_RoundTrip ==
    (filter = "All" /\ sortOrder = "unset") => Projection = bookData

\* C8 witness: filter "All", sort unset, and a store whose insertion order
\* is not the ascending title order.
C8_Witness ==
    /\ filter = "All"
    /\ sortOrder = "unset"
    /\ Len(bookData) >= 2
    /\ StrLess(ToUpperCase(bookData[2].title), ToUpperCase(bookData[1].title))

\* TRUE iff no two records of books have the same upper-cased title.
DistinctUpperTitles(books) ==
    \A i, j \in 1..Len(books) :
        ToUpperCase(books[i].title) = ToUpperCase(books[j].title) => i = j

\* C9: when no two projected records have the same upper-cased title, the
\* descending projection is the ascending projection read backwards.
C9_DescendingIsReverse ==
    LET ascending  == GetProcessedBooks(bookData, filter, "asc")
        descending == GetProcessedBooks(bookData, filter, "desc")
    IN  DistinctUpperTitles(ascending) =>
            /\ Len(descending) = Len(ascending)
            /\ \A i \in 1..Len(ascending) :
                  descending[i] = ascending[Len(ascending) + 1 - i]

\* C9 witness: the sort was toggled to descending over at least two shown
\* records with different upper-cased titles.
C9_Witness ==
    /\ sortOrder = "desc"
    /\ lastCmd = "sort"
    /\ Len(bookGrid) >= 2
    /\ DistinctUpperTitles(Projection)

\* C10: as long as no delete has run, the store is the sequence of the
\* books added, in the order of their adds (so its length is the number of
\* adds, duplicates of title and author included).
C10_AddsAppend ==
    addLog # NoLog => bookData = addLog

\* C10 witness: only adds (and toggles or filter changes) have run, and the
\* store holds the same title and author twice, with a third record last.
C10_Witness ==
    /\ addLog # NoLog
    /\ Len(bookData) = 3
    /\ bookData[1] = bookData[2]
    /\ bookData[3] # bookData[1]

\* C11: a sort toggle and a filter change leave the store as it was, records
\* and order: the sort works on a copy.
C11_ProjectionKeepsStore ==
    [][ lastCmd' \in {"sort", "filter"} => bookData' = bookData ]_vars

\* C11 witness: the sort was just toggled to ascending over the whole store,
\* the store is not in ascending title order and the grid shows another
\* book first than the store holds first.
C11_Witness ==
    /\ lastCmd = "sort"
    /\ sortOrder = "asc"
    /\ filter = "All"
    /\ Len(bookData) >= 2
    /\ StrLess(ToUpperCase(bookData[2].title), ToUpperCase(bookData[1].title))
    /\ bookGrid[1].h3 # HtmlText(bookData[1].title)

\* C12: an add and a delete leave the sort state and the filter state as
\* they were; a step that changes the sort state is a sort toggle and a
\* step that changes the filter state is a filter change.
C12_SortFilterFrame ==
    [][ /\ lastCmd' \in {"add", "delete"} =>
              sortOrder' = sortOrder /\ filter' = filter
        /\ sortOrder' # sortOrder => lastCmd' = "sort" /\ filter' = filter
        /\ filter' # filter => lastCmd' = "filter" /\ sortOrder' = sortOrder
      ]_vars

\* C12 witness: a delete has removed a record while the sort was descending
\* and a category was selected, and records are left.
C12_Witness ==
    /\ lastCmd = "delete"
    /\ sortOrder = "desc"
    /\ filter = "Comedy"
    /\ Len(bookData) = 2
    /\ Len(bookGrid) = 1
    /\ bookTitle = CalvinAndHobbes

\* C13: a delete whose recovered (title, author) pair matches no record of
\* the store changes neither the store, nor the sort state and button text,
\* nor the filter state, nor the cards shown.
C13_DeleteNoMatchIsNoOp ==
    [][ (/\ lastCmd' = "delete"
         /\ \A i \in 1..Len(bookData) : ~Matches(bookData, i, bookTitle', bookAuthor'))
        => /\ bookData' = bookData
           /\ sortOrder' = sortOrder
           /\ sortText' = sortText
           /\ filter' = filter
           /\ bookGrid' = bookGrid
      ]_vars

\* C13 witness: the delete button of the card of the book titled "&amp;"
\* was clicked, the title read back is "&", and the store, which holds that
\* book and another one, has no record with that title.
C13_Witness ==
    /\ lastCmd = "delete"
    /\ bookTitle = Amp
    /\ Len(bookData) >= 2
    /\ \E i \in 1..Len(bookData) : bookData[i].title = AmpEntity
    /\ \A i \in 1..Len(bookData) : ~Matches(bookData, i, bookTitle, bookAuthor)
    /\ Len(bookGrid) = Len(bookData)

\* The store indices of the records that pass the current filter.
Shown ==
    {i \in 1..Len(bookData) : filter = "All" \/ bookData[i].category = filter}

\* TRUE iff in the given order the record at store index j has to come
\* before the one at store index i: its upper-cased title is smaller
\* (ascending) or greater (descending), or the two are equal and j < i.
Precedes(j, i, order) ==
    LET titleJ == ToUpperCase(bookData[j].title)
        titleI == ToUpperCase(bookData[i].title)
    IN  \/ order = "asc" /\ StrLess(titleJ, titleI)
        \/ order = "desc" /\ StrLess(titleI, titleJ)
        \/ titleJ = titleI /\ j < i

\* C14: with the sort ascending (descending) the projection is a
\* permutation of the filtered store in non-decreasing (non-increasing)
\* order of upper-cased title, equal upper-cased titles in store order:
\* every filtered record stands at the position that counts the filtered
\* records that have to come before it.
C14_SortedStablePermutation ==
    sortOrder # "unset" =>
        LET projected == Projection
            shown     == Shown
        IN  /\ Len(projected) = Cardinality(shown)
            /\ \A i \in shown :
                  projected[1 + Cardinality({j \in shown : Precedes(j, i, sortOrder)})]
                      = bookData[i]

\* C14 witness: the sort was toggled to descending and the cards show two
\* titles that differ only in letter case, "dune" in front of "Dune" as in
\* the store, after a title that sorts behind both when ascending.
C14_Witness ==
    /\ sortOrder = "desc"
    /\ lastCmd = "sort"
    /\ Len(bookGrid) = 3
    /\ bookGrid[1].h3 # Dune
    /\ bookGrid[2].h3 = Trim(DunePadded)
    /\ bookGrid[3].h3 = Dune

\* C15: the cards in the grid are the rendering of the projection of the
\* current store under the current filter and sort state: as many cards as
\* projected records, card i carrying position i - 1 and the text of the
\* i-th projected record.
C15_GridShowsProjection ==
    LET projected == Projection
    IN  /\ Len(bookGrid) = Len(projected)
        /\ \A i \in 1..Len(projected) :
              /\ bookGrid[i].dataIndex = i - 1
              /\ bookGrid[i].img = projected[i].imageUrl
              /\ bookGrid[i].h3 = HtmlText(projected[i].title)
              /\ bookGrid[i].pAuthor = AuthorPrefix \o HtmlText(projected[i].author)
              /\ bookGrid[i].pCategory = projected[i].category

\* C15 witness: a filter change has just made the grid shorter than the
\* store, under a sort that shows the records in another order than the
\* store's.
C15_Witness ==
    /\ lastCmd = "filter"
    /\ sortOrder = "asc"
    /\ Len(bookData) = 3
    /\ Len(bookGrid) = 2
    /\ bookGrid[1].h3 = HtmlText(bookData[3].title)
    /\ bookGrid[2].h3 = HtmlText(bookData[1].title)

\* C16: a delete that finds a record removes one that passes the current
\* filter, and the grid has one card less afterwards (the deletes that find
\* no record are C13's).
C16_DeleteRemovesShown ==
    [][ (/\ lastCmd' = "delete"
         /\ \E i \in 1..Len(bookData) : Matches(bookData, i, bookTitle', bookAuthor'))
        => /\ \E k \in Shown : bookData' = Without(bookData, k)
           /\ Len(bookGrid') = Len(bookGrid) - 1
      ]_vars
====
